---- MODULE Spec2Model ----
(***************************************************************************)
(* A model of the recursive-descent calculator of src/src/calculator.py    *)
(* and of its tokenizer, src/src/tokenizer.py.                             *)
(*                                                                         *)
(* A text is a sequence of one-character strings, a token is a non-empty   *)
(* sequence of characters.  A numeric value is a record                    *)
(*   [t |-> "int" | "float", n |-> numerator, d |-> denominator]           *)
(* where an int has d = 1 and a float is kept as a reduced fraction whose  *)
(* denominator is a power of two, so that every float the model holds is   *)
(* exactly the IEEE double the program holds.  A computation whose value   *)
(* leaves that range (too large, not dyadic, irrational, complex) has the  *)
(* outcome "unmodelled", and a call with that outcome is not taken.        *)
(*                                                                         *)
(* An outcome (of a handler, of a call) is a record                        *)
(*   [kind, id, args, value]: kind "ok" carries value, kind "ValueError"   *)
(* carries the key of the message (id) and what the message is formatted   *)
(* with (args); the other kinds are the other exceptions of the program.   *)
(***************************************************************************)
EXTENDS Integers, Sequences, FiniteSets, TLC

VARIABLES _variables, _functions, _tokens, _current_position, _token_pattern,
          expression, test_case, result, last_call, pc,
          call_stack, returned

vars == <<_variables, _functions, _tokens, _current_position, _token_pattern,
          expression, test_case, result, last_call, pc,
          call_stack, returned>>

(***************************************************************************)
(* Bounds of the model.                                                    *)
(***************************************************************************)
\* largest magnitude of a numerator the model represents
MaxMagnitude == 40000
\* largest denominator of a float the model represents
MaxDenominator == 64
\* operands of the power cases are 0..MaxOperand
MaxOperand == 3
\* number of binary operators in an arithmetic case
MaxOps == 2
\* number of lexemes in a token-stream case
MaxLexemes == 4
\* number of lexemes in an expression typed at the prompt
MaxTyped == 2

(***************************************************************************)
(* Characters.                                                             *)
(***************************************************************************)
Digits == <<"0", "1", "2", "3", "4", "5", "6", "7", "8", "9">>

DigitChars == {Digits[i] : i \in 1..10}

DigitValue(c) == (CHOOSE i \in 1..10 : Digits[i] = c) - 1

AlphaChars ==
    {"a", "b", "c", "d", "e", "f", "g", "h", "i", "j", "k", "l", "m",
     "n", "o", "p", "q", "r", "s", "t", "u", "v", "w", "x", "y", "z",
     "A", "B", "C", "D", "E", "F", "G", "H", "I", "J", "K", "L", "M",
     "N", "O", "P", "Q", "R", "S", "T", "U", "V", "W", "X", "Y", "Z", "_"}

OperatorChars == {"+", "-", "*", "/", "%", "=", "(", ")", ","}

\* the absent token: get_current_token's None
None == <<>>

\* what the lexical pattern of the tokenizer may be: the keyword 'let' is an
\* identifier like any other (so that 'letx' is one identifier), or it is an
\* alternative of its own, tried before the identifiers
TokenPatterns == {"identifier_first", "keyword_first"}

(***************************************************************************)
(* Tokenizer.                                                              *)
(***************************************************************************)
RECURSIVE RunLength(_, _, _)
\* how many characters of s, from position i on, are in the class cls
RunLength(s, i, cls) ==
    IF i > Len(s) \/ s[i] \notin cls THEN 0 ELSE 1 + RunLength(s, i + 1, cls)

\* NUMBER := DIGIT+ ('.' DIGIT+)?
NumberLength(s, i) ==
    LET k == RunLength(s, i, DigitChars)
        f == IF i + k <= Len(s) /\ s[i + k] = "."
             THEN RunLength(s, i + k + 1, DigitChars) ELSE 0
    IN  IF f > 0 THEN k + 1 + f ELSE k

\* the length of the token the lexical pattern matches at position i of s,
\* 0 when it matches nothing there: the alternatives in priority order
TOKEN_PATTERN(s, i, pattern) ==
    IF pattern = "keyword_first" /\ i + 2 <= Len(s)
       /\ SubSeq(s, i, i + 2) = <<"l", "e", "t">> THEN 3
    ELSE IF i < Len(s) /\ s[i] = s[i + 1] /\ s[i] \in {"*", "/"} THEN 2
    ELSE IF s[i] \in DigitChars THEN NumberLength(s, i)
    ELSE IF s[i] \in AlphaChars
         THEN RunLength(s, i, AlphaChars \cup DigitChars)
    ELSE IF s[i] \in OperatorChars THEN 1
    ELSE 0

RECURSIVE findall(_, _, _)

\* the token of m characters at position i, and the tokens after it
found(s, i, pattern, m) ==
    IF m = 0 THEN findall(s, i + 1, pattern)
    ELSE <<SubSeq(s, i, i + m - 1)>> \o findall(s, i + m, pattern)

\* re.findall: the matches from left to right, an unmatched character skipped
findall(s, i, pattern) ==
    IF i > Len(s) THEN <<>>
    ELSE found(s, i, pattern, TOKEN_PATTERN(s, i, pattern))

\* str.replace(' ', ''); strip() of a text of these characters removes no more
RemoveSpaces(s) == SelectSeq(s, LAMBDA c : c # " ")

\* Tokenizer.tokenize, for a text that is not blank
tokenize(text, pattern) == findall(RemoveSpaces(text), 1, pattern)

\* Tokenizer.is_digit_token: token.replace('.', '').isdigit()
is_digit_token(token) ==
    LET bare == SelectSeq(token, LAMBDA c : c # ".")
    IN  Len(bare) > 0 /\ \A i \in 1..Len(bare) : bare[i] \in DigitChars

\* Tokenizer.is_identifier: [a-zA-Z_][a-zA-Z0-9_]*
is_identifier(token) ==
    /\ Len(token) > 0
    /\ token[1] \in AlphaChars
    /\ \A i \in 1..Len(token) : token[i] \in AlphaChars \cup DigitChars

(***************************************************************************)
(* Outcomes and numeric values.                                            *)
(***************************************************************************)
NoValue == [t |-> "none", n |-> 0, d |-> 1]

IntValue(n) == [t |-> "int", n |-> n, d |-> 1]

FloatValue(n, d) == [t |-> "float", n |-> n, d |-> d]

Ok(v) == [kind |-> "ok", id |-> "", args |-> <<>>, value |-> v]

\* raise ValueError(ERROR_MESSAGES[id].format(*args)), or the literal message
ValueError(id, args) ==
    [kind |-> "ValueError", id |-> id, args |-> args, value |-> NoValue]

\* an exception of another class raised by the interpreter
Raise(class) == [kind |-> class, id |-> "", args |-> <<>>, value |-> NoValue]

\* a value the model does not represent
Unmodelled == Raise("unmodelled")

NoResult == Raise("none")

Abs(n) == IF n < 0 THEN -n ELSE n

RECURSIVE Gcd(_, _)
Gcd(a, b) == IF b = 0 THEN a ELSE Gcd(b, a % b)

IsPowerOfTwo(d) == \E k \in 0..30 : d = 2 ^ k

\* the int n, when the model represents it
MakeInt(n) == IF Abs(n) > MaxMagnitude THEN Unmodelled ELSE Ok(IntValue(n))

\* the float n / d (d # 0), when the model represents it exactly
Represented(nn, dd) ==
    IF Abs(nn) > MaxMagnitude \/ dd > MaxDenominator \/ ~IsPowerOfTwo(dd)
    THEN Unmodelled
    ELSE Ok(FloatValue(nn, dd))

\* n / d in lowest terms, g their greatest common divisor
Reduced(n, d, g) == Represented((IF d < 0 THEN -n ELSE n) \div g, Abs(d) \div g)

MakeFloat(n, d) == Reduced(n, d, Gcd(Abs(n), Abs(d)))

BothInt(a, b) == a.t = "int" /\ b.t = "int"

\* Python's x == 0 for an int or a float
IsZero(v) == v.n = 0

\* -operand
Negate(v) == Ok([v EXCEPT !.n = -v.n])

Add(a, b) ==
    IF BothInt(a, b) THEN MakeInt(a.n + b.n)
    ELSE MakeFloat(a.n * b.d + b.n * a.d, a.d * b.d)

Subtract(a, b) ==
    IF BothInt(a, b) THEN MakeInt(a.n - b.n)
    ELSE MakeFloat(a.n * b.d - b.n * a.d, a.d * b.d)

Multiply(a, b) ==
    IF BothInt(a, b) THEN MakeInt(a.n * b.n)
    ELSE MakeFloat(a.n * b.n, a.d * b.d)

\* a / b for b # 0: true division, always a float
TrueDivide(a, b) == MakeFloat(a.n * b.d, a.d * b.n)

\* a // b and a % b of ints, b # 0: the quotient rounded towards minus infinity
FloorDivide(a, b) == IF b > 0 THEN a \div b ELSE (-a) \div (-b)

Modulo(a, b) == a - b * FloorDivide(a, b)

\* p * b + c, or p itself once p is above MaxMagnitude
Scaled(p, b, c) == IF p > MaxMagnitude THEN p ELSE p * b + c

RECURSIVE PowerFrom(_, _, _)
\* p * b ^ e, or some number above MaxMagnitude when it is above
PowerFrom(p, b, e) ==
    IF e = 0 \/ p > MaxMagnitude THEN p ELSE PowerFrom(p * b, b, e - 1)

\* b ^ e for b >= 0, e >= 0, or some number above MaxMagnitude when it is above
PowerAbs(b, e) ==
    IF e = 0 THEN 1
    ELSE IF b <= 1 THEN b
    ELSE PowerFrom(1, b, e)

\* n ^ e for e >= 0, signed
PowerInt(n, e) ==
    LET p == PowerAbs(Abs(n), e)
    IN  IF n < 0 /\ e % 2 = 1 THEN -p ELSE p

\* left ** right of Python's int and float
Power(a, b) ==
    IF b.d # 1 THEN Unmodelled
    ELSE IF b.n >= 0
         THEN IF BothInt(a, b) THEN MakeInt(PowerInt(a.n, b.n))
              ELSE LET pn == PowerInt(a.n, b.n)
                       pd == PowerAbs(a.d, b.n)
                   IN  IF Abs(pn) > MaxMagnitude \/ pd > MaxMagnitude
                       THEN Unmodelled ELSE MakeFloat(pn, pd)
    ELSE IF IsZero(a) THEN Raise("ZeroDivisionError")
    ELSE LET pn == PowerInt(a.n, -b.n)
             pd == PowerAbs(a.d, -b.n)
         IN  IF Abs(pn) > MaxMagnitude \/ pd > MaxMagnitude
             THEN Unmodelled ELSE MakeFloat(pd, pn)

RECURSIVE DigitsValue(_)
\* int() of a string of digits, or some number above MaxMagnitude
DigitsValue(ds) ==
    IF Len(ds) = 0 THEN 0
    ELSE Scaled(DigitsValue(SubSeq(ds, 1, Len(ds) - 1)), 10,
                DigitValue(ds[Len(ds)]))

\* Calculator.parse_number
parse_number(token) ==
    LET dots == SelectSeq(token, LAMBDA c : c = ".")
        p    == CHOOSE i \in 1..Len(token) : token[i] = "."
    IN  IF Len(dots) = 0
        THEN MakeInt(DigitsValue(token))
        ELSE IF Len(dots) > 1 \/ Len(token) = 1
             THEN ValueError("invalid_number", <<token>>)
        ELSE LET whole == DigitsValue(SubSeq(token, 1, p - 1))
                 frac  == SubSeq(token, p + 1, Len(token))
                 scale == PowerAbs(10, Len(frac))
             IN  IF whole > MaxMagnitude \/ scale > MaxMagnitude
                 THEN Unmodelled
                 ELSE MakeFloat(whole * scale + DigitsValue(frac), scale)

(***************************************************************************)
(* Tokens the grammar names.                                               *)
(***************************************************************************)
LPAREN == <<"(">>
RPAREN == <<")">>
COMMA == <<",">>
EQUALS == <<"=">>
PLUS == <<"+">>
MINUS == <<"-">>
STAR == <<"*">>
SLASH == <<"/">>
DOUBLESLASH == <<"/", "/">>
PERCENT == <<"%">>
DOUBLESTAR == <<"*", "*">>
LET_KEYWORD == <<"l", "e", "t">>

(***************************************************************************)
(* The built-in functions.  An error of a built-in is caught by the call   *)
(* and raised again as a ValueError, so here it is just "error".           *)
(***************************************************************************)
BuiltinError == Raise("error")

\* x < y of two numeric values
Less(x, y) == x.n * y.d < y.n * x.d

RECURSIVE Extreme(_, _, _)
\* max (greatest = TRUE) or min of a non-empty list: the first of the extremes
Extreme(arguments, best, greatest) ==
    IF Len(arguments) = 0 THEN best
    ELSE LET x == Head(arguments)
             better == IF greatest THEN Less(best, x) ELSE Less(x, best)
         IN  Extreme(Tail(arguments), IF better THEN x ELSE best, greatest)

\* the largest r with r * r <= n
IntegerRoot(n) == CHOOSE r \in 0..n : r * r <= n /\ (r + 1) * (r + 1) > n

\* self._functions[function_name](*arguments)
call_builtin(callable, arguments) ==
    LET n == Len(arguments)
        x == arguments[1]
    IN  CASE callable = "abs" ->
               IF n # 1 THEN BuiltinError ELSE Ok([x EXCEPT !.n = Abs(x.n)])
          [] callable \in {"max", "min"} ->
               \* with one argument it must be an iterable, and a number is none
               IF n < 2 THEN BuiltinError
               ELSE Ok(Extreme(Tail(arguments), x, callable = "max"))
          [] callable = "pow" ->
               IF n < 2 \/ n > 3 THEN BuiltinError
               ELSE IF n = 3 THEN Unmodelled
               ELSE LET p == Power(x, arguments[2])
                    IN  IF p.kind \in {"ok", "unmodelled"} THEN p ELSE BuiltinError
          [] callable = "math.sqrt" ->
               IF n # 1 \/ x.n < 0 THEN BuiltinError
               ELSE IF x.d = 1 /\ IntegerRoot(x.n) * IntegerRoot(x.n) = x.n
                    THEN Ok(FloatValue(IntegerRoot(x.n), 1))
                    ELSE Unmodelled
          [] callable = "math.log" ->
               IF n < 1 \/ n > 2 THEN BuiltinError ELSE Unmodelled
          [] OTHER ->
               \* math.sin, math.cos, math.tan, math.log10, math.exp
               IF n # 1 THEN BuiltinError ELSE Unmodelled

\* Calculator.initialize_functions
initialize_functions ==
    (<<"a", "b", "s">> :> "abs")
    @@ (<<"s", "q", "r", "t">> :> "math.sqrt")
    @@ (<<"p", "o", "w">> :> "pow")
    @@ (<<"m", "a", "x">> :> "max")
    @@ (<<"m", "i", "n">> :> "min")
    @@ (<<"s", "i", "n">> :> "math.sin")
    @@ (<<"c", "o", "s">> :> "math.cos")
    @@ (<<"t", "a", "n">> :> "math.tan")
    @@ (<<"l", "o", "g">> :> "math.log")
    @@ (<<"l", "o", "g", "1", "0">> :> "math.log10")
    @@ (<<"e", "x", "p">> :> "math.exp")

\* the mapping with no key: {}
EmptyDict == [k \in {} |-> NoValue]

(***************************************************************************)
(* The evaluator.  self is the record of the Calculator's fields; a        *)
(* handler yields [self, res]: the fields as it leaves them and its        *)
(* outcome (its return value, or the exception it raises).                 *)
(***************************************************************************)
Yield(self, res) == [self |-> self, res |-> res]

\* Calculator.get_current_token
get_current_token(self) ==
    IF self.current_position < Len(self.tokens)
    THEN self.tokens[self.current_position + 1]
    ELSE None

\* Calculator.consume_token; expected_token None for no expectation
consume_token(self, expected_token) ==
    IF self.current_position >= Len(self.tokens)
    THEN Yield(self, ValueError("unexpected_end", <<>>))
    ELSE LET current_token == self.tokens[self.current_position + 1]
         IN  IF expected_token # None /\ current_token # expected_token
             THEN Yield(self, ValueError("unexpected_token",
                                         <<expected_token, current_token>>))
             ELSE Yield([self EXCEPT !.current_position = @ + 1], Ok(NoValue))

\* Calculator.handle_variable_reference
handle_variable_reference(self, variable_name) ==
    IF variable_name \notin DOMAIN self.variables
    THEN Yield(self, ValueError("unknown_variable", <<variable_name>>))
    ELSE Yield(self, Ok(self.variables[variable_name]))

RECURSIVE handle_expression(_)

\* a failed step of an argument list: [self, res, arguments]
Arguments(self, res, arguments) ==
    [self |-> self, res |-> res, arguments |-> arguments]

RECURSIVE more_arguments(_, _)

\* arguments.append(self.handle_expression()), argument its outcome
append_argument(argument, arguments) ==
    IF argument.res.kind # "ok"
    THEN Arguments(argument.self, argument.res, arguments)
    ELSE more_arguments(argument.self, Append(arguments, argument.res.value))

\* the loop of handle_function_call: while the current token is ','
more_arguments(self, arguments) ==
    IF get_current_token(self) # COMMA
    THEN Arguments(self, Ok(NoValue), arguments)
    ELSE append_argument(handle_expression(consume_token(self, COMMA).self),
                         arguments)

\* the arguments of a call, after consume_token('(') with outcome open
argument_list(open) ==
    IF open.res.kind # "ok" THEN Arguments(open.self, open.res, <<>>)
    ELSE IF get_current_token(open.self) = RPAREN
    THEN Arguments(open.self, Ok(NoValue), <<>>)
    ELSE append_argument(handle_expression(open.self), <<>>)

\* the try block of handle_function_call, after consume_token(')') with
\* outcome close: any exception of the built-in becomes a ValueError
invoke(close, function_name, arguments) ==
    IF close.res.kind # "ok" THEN close
    ELSE Yield(close.self,
               LET value == call_builtin(close.self.functions[function_name],
                                         arguments)
               IN  IF value.kind = "error"
                   THEN ValueError("function_call_error", <<function_name>>)
                   ELSE value)

\* handle_function_call after its arguments, list
call_with(list, function_name) ==
    IF list.res.kind # "ok" THEN Yield(list.self, list.res)
    ELSE invoke(consume_token(list.self, RPAREN), function_name, list.arguments)

\* call_with, with the look-up of the name only now
call_with_late(list, function_name) ==
    IF list.res.kind # "ok" THEN Yield(list.self, list.res)
    ELSE IF function_name \notin DOMAIN list.self.functions
    THEN Yield(list.self, ValueError("unknown_function", <<function_name>>))
    ELSE invoke(consume_token(list.self, RPAREN), function_name, list.arguments)

\* handle_function_call, were the name looked up after the arguments are parsed
handle_function_call_late(self, function_name) ==
    call_with_late(argument_list(consume_token(self, LPAREN)), function_name)

\* Calculator.handle_function_call
handle_function_call(self, function_name) ==
    IF function_name \notin DOMAIN self.functions
    THEN Yield(self, ValueError("unknown_function", <<function_name>>))
    ELSE call_with(argument_list(consume_token(self, LPAREN)), function_name)

\* return result after consume_token(')') with outcome close
return_after(close, res) ==
    IF close.res.kind # "ok" THEN close ELSE Yield(close.self, res)

\* the '(' branch of handle_primary_expression, inner the outcome of the
\* expression in the parentheses
parenthesized(inner) ==
    IF inner.res.kind # "ok" THEN inner
    ELSE return_after(consume_token(inner.self, RPAREN), inner.res)

\* the identifier branch of handle_primary_expression, the identifier consumed
identifier_primary(self, identifier) ==
    IF get_current_token(self) = LPAREN
    THEN handle_function_call(self, identifier)
    ELSE handle_variable_reference(self, identifier)

\* handle_primary_expression with token the current token
primary_of(self, token) ==
    IF token = None
    THEN Yield(self, ValueError("expected_primary", <<>>))
    ELSE IF token = LPAREN
    THEN parenthesized(handle_expression(consume_token(self, LPAREN).self))
    ELSE IF is_digit_token(token)
    THEN Yield(consume_token(self, None).self, parse_number(token))
    ELSE IF is_identifier(token)
    THEN identifier_primary(consume_token(self, None).self, token)
    ELSE Yield(self, ValueError("unexpected_primary", <<token>>))

\* Calculator.handle_primary_expression
handle_primary_expression(self) == primary_of(self, get_current_token(self))

RECURSIVE handle_unary_expression(_)

\* the sign token applied to the outcome operand
signed(token, operand) ==
    IF operand.res.kind # "ok" \/ token = PLUS THEN operand
    ELSE Yield(operand.self, Negate(operand.res.value))

\* handle_unary_expression with token the current token
unary_of(self, token) ==
    IF token \in {PLUS, MINUS}
    THEN signed(token, handle_unary_expression(consume_token(self, None).self))
    ELSE handle_primary_expression(self)

\* Calculator.handle_unary_expression
handle_unary_expression(self) == unary_of(self, get_current_token(self))

RECURSIVE handle_power_expression(_)

\* return left_operand ** right_operand
raised(left_operand, right_operand) ==
    IF right_operand.res.kind # "ok" THEN right_operand
    ELSE Yield(right_operand.self,
               Power(left_operand.res.value, right_operand.res.value))

RECURSIVE power_of_left(_)
\* power_of, were ** a loop over unary operands: left-associative
power_of_left(left_operand) ==
    IF left_operand.res.kind # "ok" THEN left_operand
    ELSE IF get_current_token(left_operand.self) = DOUBLESTAR
    THEN power_of_left(
             raised(left_operand,
                    handle_unary_expression(
                        consume_token(left_operand.self, DOUBLESTAR).self)))
    ELSE left_operand

\* handle_power_expression after its left operand
power_of(left_operand) ==
    IF left_operand.res.kind # "ok" THEN left_operand
    ELSE IF get_current_token(left_operand.self) = DOUBLESTAR
    THEN raised(left_operand,
                handle_power_expression(
                    consume_token(left_operand.self, DOUBLESTAR).self))
    ELSE left_operand

\* Calculator.handle_power_expression
handle_power_expression(self) == power_of(handle_unary_expression(self))

\* multiplicative_operation, were // and % to test whether the operands'
\* values are whole instead of whether their type is int
multiplicative_operation_by_value(token, result_, right_operand) ==
    IF token = STAR THEN Multiply(result_, right_operand)
    ELSE IF token = SLASH
    THEN IF IsZero(right_operand) THEN ValueError("division_by_zero", <<>>)
         ELSE TrueDivide(result_, right_operand)
    ELSE IF IsZero(right_operand)
    THEN ValueError(IF token = DOUBLESLASH THEN "integer_division_by_zero"
                    ELSE "modulo_by_zero", <<>>)
    ELSE IF result_.d = 1 /\ right_operand.d = 1
    THEN MakeInt(IF token = DOUBLESLASH
                 THEN FloorDivide(result_.n, right_operand.n)
                 ELSE Modulo(result_.n, right_operand.n))
    ELSE ValueError("integers_only", <<token>>)

\* multiplicative_operation, were the three zero checks to raise one message
multiplicative_operation_one_message(token, result_, right_operand) ==
    IF token = STAR THEN Multiply(result_, right_operand)
    ELSE IF IsZero(right_operand) THEN ValueError("division_by_zero", <<>>)
    ELSE IF token = SLASH THEN TrueDivide(result_, right_operand)
    ELSE IF BothInt(result_, right_operand)
    THEN MakeInt(IF token = DOUBLESLASH
                 THEN FloorDivide(result_.n, right_operand.n)
                 ELSE Modulo(result_.n, right_operand.n))
    ELSE ValueError("integers_only", <<token>>)

\* the body of handle_multiplicative_expression's loop: result <op>= right_operand
multiplicative_operation(token, result_, right_operand) ==
    IF token = STAR THEN Multiply(result_, right_operand)
    ELSE IF token = SLASH
    THEN IF IsZero(right_operand) THEN ValueError("division_by_zero", <<>>)
         ELSE TrueDivide(result_, right_operand)
    ELSE IF token = DOUBLESLASH
    THEN IF IsZero(right_operand)
         THEN ValueError("integer_division_by_zero", <<>>)
         ELSE IF BothInt(result_, right_operand)
              THEN MakeInt(FloorDivide(result_.n, right_operand.n))
              ELSE ValueError("integers_only", <<DOUBLESLASH>>)
    ELSE IF IsZero(right_operand) THEN ValueError("modulo_by_zero", <<>>)
         ELSE IF BothInt(result_, right_operand)
              THEN MakeInt(Modulo(result_.n, right_operand.n))
              ELSE ValueError("integers_only", <<PERCENT>>)

\* the body of handle_additive_expression's loop: result += or -= right_operand
additive_operation(token, result_, right_operand) ==
    IF token = PLUS THEN Add(result_, right_operand)
    ELSE Subtract(result_, right_operand)

RECURSIVE multiplicative_loop(_, _)

\* one turn of the loop is done, with the outcome next, at self
multiplicative_next(self, next) ==
    IF next.kind # "ok" THEN Yield(self, next)
    ELSE multiplicative_loop(self, next.value)

\* one turn of the loop of handle_multiplicative_expression
multiplicative_turn(token, result_, right_operand) ==
    IF right_operand.res.kind # "ok" THEN right_operand
    ELSE multiplicative_next(right_operand.self,
             multiplicative_operation(token, result_, right_operand.res.value))

\* the while loop of handle_multiplicative_expression, result_ so far
multiplicative_loop(self, result_) ==
    IF get_current_token(self) \in {STAR, SLASH, DOUBLESLASH, PERCENT}
    THEN multiplicative_turn(get_current_token(self), result_,
             handle_power_expression(consume_token(self, None).self))
    ELSE Yield(self, Ok(result_))

\* handle_multiplicative_expression after its first operand
multiplicative_of(first) ==
    IF first.res.kind # "ok" THEN first
    ELSE multiplicative_loop(first.self, first.res.value)

\* Calculator.handle_multiplicative_expression
handle_multiplicative_expression(self) ==
    multiplicative_of(handle_power_expression(self))

RECURSIVE additive_loop(_, _)

\* one turn of the loop is done, with the outcome next, at self
additive_next(self, next) ==
    IF next.kind # "ok" THEN Yield(self, next)
    ELSE additive_loop(self, next.value)

\* one turn of the loop of handle_additive_expression
additive_turn(token, result_, right_operand) ==
    IF right_operand.res.kind # "ok" THEN right_operand
    ELSE additive_next(right_operand.self,
             additive_operation(token, result_, right_operand.res.value))

\* additive_loop, were its right operand a power expression: * would bind
\* no tighter than + and -
additive_loop_flat(self, result_) ==
    IF get_current_token(self) \in {PLUS, MINUS}
    THEN additive_turn(get_current_token(self), result_,
             handle_power_expression(consume_token(self, None).self))
    ELSE Yield(self, Ok(result_))

\* the while loop of handle_additive_expression, result_ so far
additive_loop(self, result_) ==
    IF get_current_token(self) \in {PLUS, MINUS}
    THEN additive_turn(get_current_token(self), result_,
             handle_multiplicative_expression(consume_token(self, None).self))
    ELSE Yield(self, Ok(result_))

\* handle_additive_expression after its first operand
additive_of(first) ==
    IF first.res.kind # "ok" THEN first
    ELSE additive_loop(first.self, first.res.value)

\* Calculator.handle_additive_expression
handle_additive_expression(self) ==
    additive_of(handle_multiplicative_expression(self))

\* the number of parameters Tokenizer.is_identifier declares
IsIdentifierParameters == 1

\* a call of Tokenizer.is_identifier(token) with `bound` arguments put before
\* token: none through the class, one (the instance) through an instance,
\* as the function is no staticmethod
call_is_identifier(bound, token) ==
    IF bound + 1 # IsIdentifierParameters
    THEN Raise("TypeError")
    ELSE Ok(IntValue(IF is_identifier(token) THEN 1 ELSE 0))

\* self._variables[variable_name] = value; return value
store(variable_name, value) ==
    IF value.res.kind # "ok" THEN value
    ELSE Yield([value.self EXCEPT !.variables =
                    [k \in DOMAIN @ \cup {variable_name} |->
                        IF k = variable_name THEN value.res.value ELSE @[k]]],
               value.res)

\* handle_assignment after consume_token('=') with outcome eq
assigned(variable_name, eq) ==
    IF eq.res.kind # "ok" THEN eq
    ELSE store(variable_name, handle_expression(eq.self))

\* handle_assignment after consume_token() of the name, with outcome name
named(variable_name, name) ==
    IF name.res.kind # "ok" THEN name
    ELSE assigned(variable_name, consume_token(name.self, EQUALS))

\* handle_assignment after the check of the name, with outcome valid
checked(self, variable_name, valid) ==
    IF valid.kind # "ok" THEN Yield(self, valid)
    ELSE IF valid.value.n = 0
    THEN Yield(self, ValueError("invalid_identifier", <<variable_name>>))
    ELSE named(variable_name, consume_token(self, None))

\* the 'let' branch of handle_assignment, 'let' consumed
let_of(self) ==
    checked(self, get_current_token(self),
            call_is_identifier(1, get_current_token(self)))

\* Calculator.handle_assignment
handle_assignment(self) ==
    IF get_current_token(self) = LET_KEYWORD
    THEN let_of(consume_token(self, LET_KEYWORD).self)
    ELSE handle_additive_expression(self)

\* Calculator.handle_expression
handle_expression(self) == handle_assignment(self)

\* str.strip() of the expression is empty
IsBlank(text) == \A i \in 1..Len(text) : text[i] = " "

\* processed, were the check for tokens left over forgotten
processed_unchecked(parsed) == parsed

\* the check of calculate that every token is processed
processed(parsed) ==
    IF parsed.res.kind # "ok" THEN parsed
    ELSE IF parsed.self.current_position # Len(parsed.self.tokens)
    THEN Yield(parsed.self, ValueError("unprocessed_tokens", <<>>))
    ELSE parsed

\* Calculator.calculate
calculate(self, text) ==
    IF IsBlank(text) THEN Yield(self, ValueError("empty_expression", <<>>))
    ELSE processed(handle_expression(
                       [self EXCEPT !.tokens = tokenize(text, self.token_pattern),
                                    !.current_position = 0]))

(***************************************************************************)
(* The expressions the calculator is given.  A lexeme is a token's text;   *)
(* an expression is written as its lexemes with a space between them.      *)
(***************************************************************************)
RECURSIVE Join(_)
Join(lexemes) ==
    IF Len(lexemes) = 0 THEN <<>>
    ELSE IF Len(lexemes) = 1 THEN lexemes[1]
    ELSE lexemes[1] \o <<" ">> \o Join(Tail(lexemes))

RECURSIVE Numeral(_)
\* the decimal digits of n >= 0
Numeral(n) ==
    IF n < 10 THEN <<Digits[n + 1]>>
    ELSE Numeral(n \div 10) \o <<Digits[(n % 10) + 1]>>

RECURSIVE Streams(_, _)
\* the sequences of exactly k lexemes of the set
Streams(lexemes, k) ==
    IF k = 0 THEN {<<>>}
    ELSE {Append(s, l) : s \in Streams(lexemes, k - 1), l \in lexemes}

StreamsUpTo(lexemes, k) == UNION {Streams(lexemes, j) : j \in 1..k}

X == <<"x">>
Y == <<"y">>
ABS == <<"a", "b", "s">>
F == <<"f">>

\* token-stream cases: any sequence of these lexemes
StreamLexemes ==
    {<<"2">>, X, ABS, F, LET_KEYWORD, EQUALS, LPAREN, RPAREN, COMMA, PLUS}

\* the operands of the multiplicative cases
OperandLexemes ==
    {<<"0">>, <<"2">>, <<"7">>, <<"0", ".", "0">>, <<"0", ".", "5">>,
     <<"1", ".", "5">>, <<"2", ".", "0">>}

MultiplicativeLexemes == {STAR, SLASH, DOUBLESLASH, PERCENT}

\* a op b, a op b op c and -a op b
MultiplicativeCases ==
    {<<a, o, b>> : a \in OperandLexemes, o \in MultiplicativeLexemes,
                   b \in OperandLexemes}
    \cup {<<a, o, b, q, c>> : a \in {<<"7">>, <<"1", ".", "5">>},
                              o \in MultiplicativeLexemes,
                              b \in {<<"2">>, <<"0", ".", "5">>},
                              q \in MultiplicativeLexemes,
                              c \in OperandLexemes}
    \cup {<<MINUS, a, o, b>> : a \in OperandLexemes,
                               o \in MultiplicativeLexemes,
                               b \in OperandLexemes}

\* a ** b ** c and (a ** b) ** c
PowerTriples ==
    {<<a, b, c>> : a \in 0..MaxOperand, b \in 0..MaxOperand, c \in 0..MaxOperand}

PowerChain(t) ==
    <<Numeral(t[1]), DOUBLESTAR, Numeral(t[2]), DOUBLESTAR, Numeral(t[3])>>

PowerGrouped(t) ==
    <<LPAREN, Numeral(t[1]), DOUBLESTAR, Numeral(t[2]), RPAREN, DOUBLESTAR,
      Numeral(t[3])>>

\* a ** -b
PowerPairs == {<<a, b>> : a \in 0..MaxOperand, b \in 0..MaxOperand}

PowerInverse(t) == <<Numeral(t[1]), DOUBLESTAR, MINUS, Numeral(t[2])>>

\* arithmetic cases: a tree is a leaf <<n>> or a node <<op, left, right>>
LeafLiterals == {2, 3, 4}

TreeOperators == {"+", "-", "*"}

RECURSIVE Trees(_)
\* the trees of exactly k operators
Trees(k) ==
    IF k = 0 THEN {<<n>> : n \in LeafLiterals}
    ELSE UNION {{<<o, l, r>> : o \in TreeOperators, l \in Trees(i),
                               r \in Trees(k - 1 - i)} : i \in 0..(k - 1)}

IsLeaf(t) == Len(t) = 1

Precedence(o) == IF o = "*" THEN 2 ELSE 1

RECURSIVE Render(_)
\* the lexemes of a tree, with the parentheses standard precedence and
\* left-to-right association need and no others
Render(t) ==
    IF IsLeaf(t) THEN <<Numeral(t[1])>>
    ELSE LET o == t[1]
             l == t[2]
             r == t[3]
             wrap(c, needed) == IF needed THEN <<LPAREN>> \o Render(c) \o <<RPAREN>>
                                ELSE Render(c)
         IN  wrap(l, ~IsLeaf(l) /\ Precedence(l[1]) < Precedence(o))
             \o <<<<o>>>>
             \o wrap(r, ~IsLeaf(r) /\ Precedence(r[1]) <= Precedence(o))

RECURSIVE TreeValue(_)
\* the integer standard arithmetic gives a tree
TreeValue(t) ==
    IF IsLeaf(t) THEN t[1]
    ELSE IF t[1] = "+" THEN TreeValue(t[2]) + TreeValue(t[3])
    ELSE IF t[1] = "-" THEN TreeValue(t[2]) - TreeValue(t[3])
    ELSE TreeValue(t[2]) * TreeValue(t[3])

\* assignment cases
AssignmentCases ==
    {<<LET_KEYWORD, v, EQUALS, e>> : v \in {X, Y, ABS}, e \in {<<"5">>, <<"0">>}}
    \cup {<<LET_KEYWORD, v, EQUALS, <<"2">>, o, <<"3">>>> :
              v \in {X, Y}, o \in {PLUS, STAR, DOUBLESTAR}}
    \cup {<<LPAREN, LET_KEYWORD, X, EQUALS, <<"5">>, RPAREN, PLUS, Y>>,
          <<LPAREN, LET_KEYWORD, X, EQUALS, <<"5">>, RPAREN, RPAREN>>,
          <<LPAREN, LET_KEYWORD, X, EQUALS, <<"5">>, RPAREN, <<"2">>>>,
          <<LPAREN, LET_KEYWORD, X, EQUALS, <<"5">>, RPAREN, PLUS>>,
          <<LET_KEYWORD, X, EQUALS, LET_KEYWORD, Y, EQUALS, <<"5">>>>,
          <<ABS, LPAREN, LET_KEYWORD, X, EQUALS, <<"5">>, COMMA, Y, RPAREN>>}

\* what is typed at the prompt
TypedLexemes == {<<"2">>, X, ABS, LET_KEYWORD, LPAREN, RPAREN, PLUS, DOUBLESTAR}

TypedExpressions ==
    {Join(s) : s \in StreamsUpTo(TypedLexemes, MaxTyped) \cup AssignmentCases}

(***************************************************************************)
(* The state machine: a Calculator and the calls made on it.               *)
(***************************************************************************)
\* the Calculator's fields
Self ==
    [variables |-> _variables, functions |-> _functions,
     tokens |-> _tokens, current_position |-> _current_position,
     token_pattern |-> _token_pattern]

\* Calculator.__init__
Constructed ==
    /\ _variables = EmptyDict
    /\ _functions = initialize_functions
    /\ _tokens = <<>>
    /\ _current_position = 0
    /\ _token_pattern \in TokenPatterns
    /\ result = NoResult
    /\ last_call = "__init__"
    /\ call_stack = <<>>
    /\ returned = NoValue

\* a call calculate(text), its outcome kept in result
Calculate(text) ==
    LET out == calculate(Self, text)
    IN  /\ out.res.kind # "unmodelled"
        /\ _variables' = out.self.variables
        /\ _functions' = out.self.functions
        /\ _tokens' = out.self.tokens
        /\ _current_position' = out.self.current_position
        /\ expression' = text
        /\ result' = out.res
        /\ last_call' = "calculate"
        /\ UNCHANGED <<call_stack, returned>>

\* the expression read at the prompt is calculated
CalculateTyped ==
    /\ pc = "prompt"
    /\ \E text \in TypedExpressions : Calculate(text)
    /\ UNCHANGED <<pc, test_case, _token_pattern>>

\* the case's expression is calculated
CalculateCase ==
    /\ pc = "ready"
    /\ Calculate(expression)
    /\ pc' = "done"
    /\ UNCHANGED <<test_case, _token_pattern>>

\* clear_variables, were it to clear the function table too
ClearVariablesAll ==
    /\ _variables' = EmptyDict
    /\ _functions' = EmptyDict
    /\ last_call' = "clear_variables"
    /\ UNCHANGED <<_tokens, _current_position, _token_pattern,
                   expression, result, pc, test_case, call_stack, returned>>

\* Calculator.clear_variables
ClearVariables ==
    /\ _variables' = EmptyDict
    /\ last_call' = "clear_variables"
    /\ UNCHANGED <<_functions, _tokens, _current_position, _token_pattern,
                   expression, result, pc, test_case, call_stack, returned>>

\* a session at the prompt: any calls in any order
Init ==
    /\ Constructed
    /\ expression = <<>>
    /\ test_case = <<"typed", <<>>>>
    /\ pc = "prompt"

Next == CalculateTyped \/ ClearVariables

Spec == Init /\ [][Next]_vars

\* a test case: a fresh Calculator is given the case's expression
Case(family, data, lexemes) ==
    /\ test_case = <<family, data>>
    /\ expression = Join(lexemes)

InitCases ==
    /\ Constructed
    /\ pc = "ready"
    /\ \/ \E s \in StreamsUpTo(StreamLexemes, MaxLexemes) : Case("stream", s, s)
       \/ \E m \in MultiplicativeCases : Case("multiplicative", m, m)
       \/ \E t \in PowerTriples : Case("power", t, PowerChain(t))
       \/ \E t \in PowerTriples : Case("grouped", t, PowerGrouped(t))
       \/ \E t \in PowerPairs : Case("inverse", t, PowerInverse(t))
       \/ \E k \in 0..MaxOps : \E t \in Trees(k) : Case("tree", t, Render(t))
       \/ \E a \in AssignmentCases : Case("assignment", a, a)

NextCases == CalculateCase \/ ClearVariables

SpecCases == InitCases /\ [][NextCases]_vars

(***************************************************************************)
(* One call of calculate, step by step.  The handlers above give a call's  *)
(* outcome at once; here the same call is run as the interpreter runs it:  *)
(* call_stack holds a frame for every handler that is entered and has not  *)
(* returned, the last frame is the one that runs, and returned is the      *)
(* value the handler that has just returned hands to its caller.  A frame  *)
(* keeps the handler's name, the label of the statement it is at, its      *)
(* locals (token, value, arguments), the cursor when it was entered        *)
(* (entry) and the cursor at the latest test of its loop (mark, -1 before  *)
(* the first test).  A step consumes at most one token.                    *)
(***************************************************************************)
\* depth of the call stack at which the interpreter raises RecursionError
RecursionLimit == 60
\* number of arguments in a call case
MaxArguments == 2

\* a handler is entered with the cursor at entry; argument is its parameter
Frame(handler, entry, argument) ==
    [handler |-> handler, label |-> "start", entry |-> entry,
     token |-> argument, value |-> NoValue, arguments |-> <<>>, mark |-> -1]

\* the frame goes on at the label
At(frame, label) == [frame EXCEPT !.label = label]

\* what a step does: go on in the frame, call a handler, return, or raise
Goto(self, frame) ==
    [do |-> "goto", self |-> self, frame |-> frame, callee |-> "",
     argument |-> None, value |-> NoValue, res |-> Ok(NoValue)]

CallOf(self, frame, callee, argument) ==
    [do |-> "call", self |-> self, frame |-> frame, callee |-> callee,
     argument |-> argument, value |-> NoValue, res |-> Ok(NoValue)]

ReturnOf(self, value) ==
    [do |-> "return", self |-> self, frame |-> Frame("", 0, None),
     callee |-> "", argument |-> None, value |-> value, res |-> Ok(value)]

RaiseOf(self, res) ==
    [do |-> "raise", self |-> self, frame |-> Frame("", 0, None),
     callee |-> "", argument |-> None, value |-> NoValue, res |-> res]

\* a statement whose outcome, yield, is returned or raised
Finish(yield) ==
    IF yield.res.kind = "ok" THEN ReturnOf(yield.self, yield.res.value)
    ELSE RaiseOf(yield.self, yield.res)

\* the step after consume_token with outcome consumed
After(consumed, step) ==
    IF consumed.res.kind # "ok" THEN RaiseOf(consumed.self, consumed.res)
    ELSE step

\* Calculator.handle_expression, one step
step_handle_expression(self, frame, value) ==
    IF frame.label = "start"
    THEN CallOf(self, At(frame, "return"), "handle_assignment", None)
    ELSE ReturnOf(self, value)

\* the check of the name in handle_assignment, with outcome valid, and the
\* consume_token() after it
step_checked(self, frame, variable_name, valid) ==
    IF valid.kind # "ok" THEN RaiseOf(self, valid)
    ELSE IF valid.value.n = 0
    THEN RaiseOf(self, ValueError("invalid_identifier", <<variable_name>>))
    ELSE After(consume_token(self, None),
               Goto(consume_token(self, None).self,
                    [At(frame, "equals") EXCEPT !.token = variable_name]))

\* Calculator.handle_assignment, one step
step_handle_assignment(self, frame, value) ==
    IF frame.label = "start"
    THEN IF get_current_token(self) = LET_KEYWORD
         THEN After(consume_token(self, LET_KEYWORD),
                    Goto(consume_token(self, LET_KEYWORD).self,
                         At(frame, "name")))
         ELSE CallOf(self, At(frame, "return"),
                     "handle_additive_expression", None)
    ELSE IF frame.label = "name"
    THEN step_checked(self, frame, get_current_token(self),
                      call_is_identifier(1, get_current_token(self)))
    ELSE IF frame.label = "equals"
    THEN After(consume_token(self, EQUALS),
               CallOf(consume_token(self, EQUALS).self, At(frame, "store"),
                      "handle_expression", None))
    ELSE IF frame.label = "store"
    THEN Finish(store(frame.token, Yield(self, Ok(value))))
    ELSE ReturnOf(self, value)

\* the loop of a binary handler: the test of the current token and, for an
\* operator of the handler, its consume_token and the call for the operand
step_loop(self, frame, operators, operand) ==
    IF get_current_token(self) \in operators
    THEN After(consume_token(self, None),
               CallOf(consume_token(self, None).self,
                      [At(frame, "turn") EXCEPT
                          !.token = get_current_token(self),
                          !.mark = self.current_position],
                      operand, None))
    ELSE ReturnOf(self, frame.value)

\* the operator of a turn is applied, with outcome next
step_turn(self, frame, next) ==
    IF next.kind # "ok" THEN RaiseOf(self, next)
    ELSE Goto(self, [At(frame, "loop") EXCEPT !.value = next.value])

\* Calculator.handle_additive_expression, one step
step_handle_additive_expression(self, frame, value) ==
    IF frame.label = "start"
    THEN CallOf(self, At(frame, "first"),
                "handle_multiplicative_expression", None)
    ELSE IF frame.label = "first"
    THEN Goto(self, [At(frame, "loop") EXCEPT !.value = value])
    ELSE IF frame.label = "loop"
    THEN step_loop(self, frame, {PLUS, MINUS},
                   "handle_multiplicative_expression")
    ELSE step_turn(self, frame,
                   additive_operation(frame.token, frame.value, value))

\* Calculator.handle_multiplicative_expression, one step
step_handle_multiplicative_expression(self, frame, value) ==
    IF frame.label = "start"
    THEN CallOf(self, At(frame, "first"), "handle_power_expression", None)
    ELSE IF frame.label = "first"
    THEN Goto(self, [At(frame, "loop") EXCEPT !.value = value])
    ELSE IF frame.label = "loop"
    THEN step_loop(self, frame, {STAR, SLASH, DOUBLESLASH, PERCENT},
                   "handle_power_expression")
    ELSE step_turn(self, frame,
                   multiplicative_operation(frame.token, frame.value, value))

\* Calculator.handle_power_expression, one step
step_handle_power_expression(self, frame, value) ==
    IF frame.label = "start"
    THEN CallOf(self, At(frame, "left"), "handle_unary_expression", None)
    ELSE IF frame.label = "left"
    THEN IF get_current_token(self) = DOUBLESTAR
         THEN After(consume_token(self, DOUBLESTAR),
                    CallOf(consume_token(self, DOUBLESTAR).self,
                           [At(frame, "raise") EXCEPT !.value = value],
                           "handle_power_expression", None))
         ELSE ReturnOf(self, value)
    ELSE Finish(raised(Yield(self, Ok(frame.value)), Yield(self, Ok(value))))

\* handle_unary_expression, were the sign looked at and not consumed
step_handle_unary_expression_peek(self, frame, value) ==
    IF frame.label = "start"
    THEN IF get_current_token(self) \in {PLUS, MINUS}
         THEN CallOf(self,
                     [At(frame, "sign") EXCEPT
                         !.token = get_current_token(self)],
                     "handle_unary_expression", None)
         ELSE CallOf(self, At(frame, "return"),
                     "handle_primary_expression", None)
    ELSE IF frame.label = "sign"
    THEN Finish(signed(frame.token, Yield(self, Ok(value))))
    ELSE ReturnOf(self, value)

\* Calculator.handle_unary_expression, one step
step_handle_unary_expression(self, frame, value) ==
    IF frame.label = "start"
    THEN IF get_current_token(self) \in {PLUS, MINUS}
         THEN After(consume_token(self, get_current_token(self)),
                    CallOf(consume_token(self, get_current_token(self)).self,
                           [At(frame, "sign") EXCEPT
                               !.token = get_current_token(self)],
                           "handle_unary_expression", None))
         ELSE CallOf(self, At(frame, "return"),
                     "handle_primary_expression", None)
    ELSE IF frame.label = "sign"
    THEN Finish(signed(frame.token, Yield(self, Ok(value))))
    ELSE ReturnOf(self, value)

\* the identifier branch of handle_primary_expression, the identifier consumed
step_identifier_primary(self, frame, identifier) ==
    IF get_current_token(self) = LPAREN
    THEN CallOf(self, At(frame, "return"), "handle_function_call", identifier)
    ELSE Finish(handle_variable_reference(self, identifier))

\* handle_primary_expression with token the current token
step_primary_of(self, frame, token) ==
    IF token = None
    THEN RaiseOf(self, ValueError("expected_primary", <<>>))
    ELSE IF token = LPAREN
    THEN After(consume_token(self, LPAREN),
               CallOf(consume_token(self, LPAREN).self, At(frame, "close"),
                      "handle_expression", None))
    ELSE IF is_digit_token(token)
    THEN Finish(Yield(consume_token(self, None).self, parse_number(token)))
    ELSE IF is_identifier(token)
    THEN step_identifier_primary(consume_token(self, None).self, frame, token)
    ELSE RaiseOf(self, ValueError("unexpected_primary", <<token>>))

\* Calculator.handle_primary_expression, one step
step_handle_primary_expression(self, frame, value) ==
    IF frame.label = "start"
    THEN step_primary_of(self, frame, get_current_token(self))
    ELSE IF frame.label = "close"
    THEN Finish(return_after(consume_token(self, RPAREN), Ok(value)))
    ELSE ReturnOf(self, value)

\* Calculator.handle_function_call, one step; the frame's token is
\* function_name
step_handle_function_call(self, frame, value) ==
    IF frame.label = "start"
    THEN IF frame.token \notin DOMAIN self.functions
         THEN RaiseOf(self, ValueError("unknown_function", <<frame.token>>))
         ELSE After(consume_token(self, LPAREN),
                    Goto(consume_token(self, LPAREN).self,
                         At(frame, "arguments")))
    ELSE IF frame.label = "arguments"
    THEN IF get_current_token(self) # RPAREN
         THEN CallOf(self, At(frame, "argument"), "handle_expression", None)
         ELSE Goto(self, At(frame, "close"))
    ELSE IF frame.label = "argument"
    THEN IF get_current_token(self) = COMMA
         THEN After(consume_token(self, COMMA),
                    CallOf(consume_token(self, COMMA).self,
                           [frame EXCEPT
                               !.arguments = Append(@, value),
                               !.mark = self.current_position],
                           "handle_expression", None))
         ELSE Goto(self, [At(frame, "close") EXCEPT
                             !.arguments = Append(@, value)])
    ELSE Finish(invoke(consume_token(self, RPAREN), frame.token,
                       frame.arguments))

\* the frame that runs
Top == call_stack[Len(call_stack)]

\* the handler's frame runs
Running(handler) ==
    /\ pc = "running"
    /\ call_stack # <<>>
    /\ Top.handler = handler

\* the call stack with the running frame replaced
Replaced(frame) == [call_stack EXCEPT ![Len(call_stack)] = frame]

\* the effect of a step on the Calculator, the call stack and the call
Apply(step) ==
    /\ step.res.kind # "unmodelled"
    /\ _variables' = step.self.variables
    /\ _functions' = step.self.functions
    /\ _tokens' = step.self.tokens
    /\ _current_position' = step.self.current_position
    /\ IF step.do = "raise"
       THEN /\ call_stack' = <<>>
            /\ returned' = NoValue
            /\ result' = step.res
            /\ pc' = "done"
       ELSE IF step.do = "call" /\ Len(call_stack) >= RecursionLimit
       THEN /\ call_stack' = <<>>
            /\ returned' = NoValue
            /\ result' = Raise("RecursionError")
            /\ pc' = "done"
       ELSE /\ call_stack' =
                  IF step.do = "goto" THEN Replaced(step.frame)
                  ELSE IF step.do = "call"
                  THEN Append(Replaced(step.frame),
                              Frame(step.callee, step.self.current_position,
                                    step.argument))
                  ELSE SubSeq(call_stack, 1, Len(call_stack) - 1)
            /\ returned' = step.value
            /\ UNCHANGED <<result, pc>>
    /\ UNCHANGED <<_token_pattern, expression, test_case, last_call>>

\* calculate up to its call of handle_expression
BeginCalculate ==
    /\ pc = "ready"
    /\ calculate(Self, expression).res.kind # "unmodelled"
    /\ last_call' = "calculate"
    /\ IF IsBlank(expression)
       THEN /\ result' = ValueError("empty_expression", <<>>)
            /\ pc' = "done"
            /\ UNCHANGED <<_tokens, _current_position, call_stack>>
       ELSE /\ _tokens' = tokenize(expression, _token_pattern)
            /\ _current_position' = 0
            /\ call_stack' = <<Frame("handle_expression", 0, None)>>
            /\ pc' = "running"
            /\ UNCHANGED result
    /\ UNCHANGED <<_variables, _functions, _token_pattern, expression,
                   test_case, returned>>

\* calculate after handle_expression has returned: the check of the tokens
EndCalculate ==
    /\ pc = "running"
    /\ call_stack = <<>>
    /\ result' = processed(Yield(Self, Ok(returned))).res
    /\ pc' = "done"
    /\ returned' = NoValue
    /\ UNCHANGED <<_variables, _functions, _tokens, _current_position,
                   _token_pattern, expression, test_case, last_call,
                   call_stack>>

StepExpression ==
    /\ Running("handle_expression")
    /\ Apply(step_handle_expression(Self, Top, returned))

StepAssignment ==
    /\ Running("handle_assignment")
    /\ Apply(step_handle_assignment(Self, Top, returned))

StepAdditive ==
    /\ Running("handle_additive_expression")
    /\ Apply(step_handle_additive_expression(Self, Top, returned))

StepMultiplicative ==
    /\ Running("handle_multiplicative_expression")
    /\ Apply(step_handle_multiplicative_expression(Self, Top, returned))

StepPower ==
    /\ Running("handle_power_expression")
    /\ Apply(step_handle_power_expression(Self, Top, returned))

StepUnary ==
    /\ Running("handle_unary_expression")
    /\ Apply(step_handle_unary_expression(Self, Top, returned))

StepPrimary ==
    /\ Running("handle_primary_expression")
    /\ Apply(step_handle_primary_expression(Self, Top, returned))

StepFunctionCall ==
    /\ Running("handle_function_call")
    /\ Apply(step_handle_function_call(Self, Top, returned))

\* the name max
MAX == <<"m", "a", "x">>

\* an argument of a call case
ArgumentLexemes ==
    {<<Numeral(2)>>, <<MINUS, Numeral(3)>>,
     <<ABS, LPAREN, MINUS, Numeral(2), RPAREN>>}

RECURSIVE Separated(_)
\* the arguments with a comma between them
Separated(arguments) ==
    IF Len(arguments) = 0 THEN <<>>
    ELSE IF Len(arguments) = 1 THEN arguments[1]
    ELSE arguments[1] \o <<COMMA>> \o Separated(Tail(arguments))

\* name ( argument , ... ) with up to MaxArguments arguments
CallCases ==
    {<<name, LPAREN>> \o Separated(arguments) \o <<RPAREN>> :
        name \in {ABS, MAX, F},
        arguments \in UNION {Streams(ArgumentLexemes, k) :
                                k \in 0..MaxArguments}}

\* number of operators in a chain case, of signs and parentheses in a
\* nested case
MaxChain == 3
\* number of lexemes in a token-stream case that is run step by step
MaxStepLexemes == 2

RECURSIVE Chains(_)
\* 2 op 2 op ... with k operators of the binary handlers
Chains(k) ==
    IF k = 0 THEN {<<Numeral(2)>>}
    ELSE {c \o <<op, Numeral(2)>> :
             c \in Chains(k - 1),
             op \in {PLUS, STAR, DOUBLESLASH, DOUBLESTAR}}

ChainCases == UNION {Chains(k) : k \in 1..MaxChain}

RECURSIVE Closed(_)
\* the lexemes, with a ')' for every '(' of them, after a literal
Closed(opening) ==
    IF Len(opening) = 0 THEN <<Numeral(2)>>
    ELSE <<Head(opening)>> \o Closed(Tail(opening))
             \o (IF Head(opening) = LPAREN THEN <<RPAREN>> ELSE <<>>)

\* a literal under k signs and parentheses
NestedCases ==
    {Closed(o) : o \in StreamsUpTo({LPAREN, MINUS, PLUS}, MaxChain)}

\* a fresh Calculator is given a case's expression, and the call is run
\* step by step
InitSteps ==
    /\ Constructed
    /\ pc = "ready"
    /\ \/ \E s \in StreamsUpTo(StreamLexemes, MaxStepLexemes) :
              Case("stream", s, s)
       \/ \E c \in ChainCases : Case("chain", c, c)
       \/ \E n \in NestedCases : Case("nested", n, n)
       \/ \E t \in PowerTriples : Case("power", t, PowerChain(t))
       \/ \E t \in PowerTriples : Case("grouped", t, PowerGrouped(t))
       \/ \E a \in AssignmentCases : Case("assignment", a, a)
       \/ \E c \in CallCases : Case("call", c, c)

\* the steps of a call that has begun
RunCall ==
    \/ StepExpression
    \/ StepAssignment
    \/ StepAdditive
    \/ StepMultiplicative
    \/ StepPower
    \/ StepUnary
    \/ StepPrimary
    \/ StepFunctionCall
    \/ EndCalculate

NextSteps == BeginCalculate \/ RunCall

SpecSteps == InitSteps /\ [][NextSteps]_vars

\* the interpreter is single-threaded and synchronous: a call that has begun
\* takes its next step for as long as it has one
FairSpecSteps == SpecSteps /\ WF_vars(RunCall)

(***************************************************************************)
(* The claims.                                                             *)
(***************************************************************************)
\* the case is of the family and its call has returned or raised
Done(family) == pc = "done" /\ test_case[1] = family

\* the value of a numeric lexeme
LiteralValue(lexeme) == parse_number(lexeme).value

\* C1: calculate("let x = e") returns the value v of e and stores v under x,
\* so that a later calculate("x") returns v.  Here e is a literal.
C1_AssignmentStoresAndReturns ==
    (Done("assignment") /\ Len(test_case[2]) = 4)
    => LET x == test_case[2][2]
           v == LiteralValue(test_case[2][4])
       IN  /\ result = Ok(v)
           /\ x \in DOMAIN _variables
           /\ _variables[x] = v

\* C2: a calculate call that returns no number fails with a ValueError: no
\* other kind of failure escapes calculate.
C2_OnlyValueErrorEscapes ==
    pc = "done" => result.kind \in {"ok", "ValueError"}

\* the outcome of the grammar root on the tokens of the case's expression
RootOutcome ==
    handle_expression([variables |-> EmptyDict,
                       functions |-> initialize_functions,
                       tokens |-> tokenize(expression, _token_pattern),
                       current_position |-> 0,
                       token_pattern |-> _token_pattern])

\* C3: calculate returns a result only when the cursor equals the number of
\* tokens; when the grammar root finishes with tokens left, calculate fails
\* with the trailing-tokens error.
C3_ResultOnlyWhenAllTokensConsumed ==
    pc = "done"
    => /\ result.kind = "ok" => _current_position = Len(_tokens)
       /\ (RootOutcome.res.kind = "ok"
           /\ RootOutcome.self.current_position # Len(_tokens))
          => result = ValueError("unprocessed_tokens", <<>>)

C3_Witness ==
    /\ pc = "done"
    /\ expression = Join(<<<<"2">>, PLUS, <<"2">>, RPAREN>>)
    /\ _current_position = 3
    /\ result = ValueError("unprocessed_tokens", <<>>)

\* the last operator of a multiplicative case and its right operand
LastOperator == test_case[2][Len(test_case[2]) - 1]

LastOperand == LiteralValue(test_case[2][Len(test_case[2])])

\* the outcome of what stands left of the last operator of a multiplicative
\* case: a, -a or a op b
LeftOutcome ==
    LET m == test_case[2]
    IN  IF Len(m) = 3 THEN Ok(LiteralValue(m[1]))
        ELSE IF Len(m) = 4 THEN Negate(LiteralValue(m[2]))
        ELSE multiplicative_operation(m[2], LiteralValue(m[1]),
                                      LiteralValue(m[3]))

\* a multiplicative case that reaches its last operator, which is // or %
IntegerOperatorApplied ==
    /\ Done("multiplicative")
    /\ LastOperator \in {DOUBLESLASH, PERCENT}
    /\ LeftOutcome.kind = "ok"

FloatOperand == LeftOutcome.value.t = "float" \/ LastOperand.t = "float"

\* the identity of the zero-division error of a multiplicative operator
ZeroDivisionIdentity(token) ==
    IF token = SLASH THEN "division_by_zero"
    ELSE IF token = DOUBLESLASH THEN "integer_division_by_zero"
    ELSE "modulo_by_zero"

\* C4 as stated: a // b and a % b fail with the integer-only type error
\* whenever a or b is floating-point, also when b is zero.
C4_TypeErrorWhateverTheValues ==
    (IntegerOperatorApplied /\ FloatOperand)
    => result = ValueError("integers_only", <<LastOperator>>)

\* C4 amended: a // b and a % b fail with the integer-only type error
\* whenever a or b is floating-point and b is not zero; when b is zero (0 or
\* 0.0) they fail with the operator's zero-division error instead.
C4_TypeErrorUnlessZeroDivisor ==
    (IntegerOperatorApplied /\ FloatOperand)
    => result = IF IsZero(LastOperand)
                THEN ValueError(ZeroDivisionIdentity(LastOperator), <<>>)
                ELSE ValueError("integers_only", <<LastOperator>>)

C4_Witness ==
    /\ pc = "done"
    /\ expression = Join(<<<<"2", ".", "0">>, DOUBLESLASH, <<"2">>>>)
    /\ result = ValueError("integers_only", <<DOUBLESLASH>>)

\* C5: for every left operand a, a / 0, a // 0 and a % 0 fail, each with the
\* zero-division error of its own operator, and the three are distinct.
C5_ZeroDivisionPerOperator ==
    /\ Cardinality({ZeroDivisionIdentity(o) :
                        o \in {SLASH, DOUBLESLASH, PERCENT}}) = 3
    /\ (Done("multiplicative")
        /\ LastOperator \in {SLASH, DOUBLESLASH, PERCENT}
        /\ LeftOutcome.kind = "ok"
        /\ IsZero(LastOperand))
       => result = ValueError(ZeroDivisionIdentity(LastOperator), <<>>)

C5_Witness ==
    /\ pc = "done"
    /\ expression = Join(<<<<"1", ".", "5">>, DOUBLESLASH, <<"0">>>>)
    /\ result = ValueError("integer_division_by_zero", <<>>)

\* C6: an assignment is written as soon as its right-hand side is evaluated:
\* when a call evaluates (let x = 5) and fails later (unknown variable,
\* syntax error, trailing tokens), x is 5 after the failed call.
C6_AssignmentSurvivesLaterFailure ==
    (Done("assignment")
     /\ Len(test_case[2]) > 6
     /\ SubSeq(test_case[2], 1, 6)
            = <<LPAREN, LET_KEYWORD, X, EQUALS, <<"5">>, RPAREN>>)
    => /\ X \in DOMAIN _variables
       /\ _variables[X] = IntValue(5)

\* a to the power e of standard arithmetic, for a, e >= 0
StandardPower(a, e) == IF e = 0 THEN 1 ELSE a ^ e

\* C7: power is right-associative: a ** b ** c is a ** (b ** c), and
\* (a ** b) ** c is what the parentheses say.
C7_PowerRightAssociative ==
    LET a == test_case[2][1]
        b == test_case[2][2]
        c == test_case[2][3]
    IN  /\ Done("power")
           => result = Ok(IntValue(StandardPower(a, StandardPower(b, c))))
        /\ Done("grouped")
           => result = Ok(IntValue(StandardPower(StandardPower(a, b), c)))

C7_Witness ==
    /\ Done("power")
    /\ test_case[2] = <<2, 3, 2>>
    /\ expression = Join(<<<<"2">>, DOUBLESTAR, <<"3">>, DOUBLESTAR, <<"2">>>>)
    /\ result = Ok(IntValue(512))
    /\ 512 # StandardPower(StandardPower(2, 3), 2)

\* C8: for a well-formed expression over integer literals, + - * and
\* parentheses, calculate returns the integer of standard arithmetic.
C8_StandardArithmetic ==
    Done("tree") => result = Ok(IntValue(TreeValue(test_case[2])))

C8_Witness ==
    /\ Done("tree")
    /\ expression = Join(<<LPAREN, <<"2">>, PLUS, <<"3">>, RPAREN, STAR, <<"4">>>>)
    /\ result = Ok(IntValue(20))

\* the number of signs and opening parentheses the tokens start with
Lead == RunLength(_tokens, 1, {PLUS, MINUS, LPAREN})

\* the first operand of the call's tokens is an identifier (not the keyword)
FirstOperandIsIdentifier ==
    /\ pc = "done"
    /\ Lead < Len(_tokens)
    /\ is_identifier(_tokens[Lead + 1])
    /\ _tokens[Lead + 1] # LET_KEYWORD

FirstOperandIsCall ==
    Lead + 1 < Len(_tokens) /\ _tokens[Lead + 2] = LPAREN

\* C9: a bare identifier that is no variable fails with the unknown-variable
\* error naming it; an identifier followed by ( that is no function fails
\* with the unknown-function error naming it, whatever its arguments are.
C9_UnknownIdentifiers ==
    FirstOperandIsIdentifier
    => LET identifier == _tokens[Lead + 1]
       IN  IF FirstOperandIsCall
           THEN identifier \notin DOMAIN _functions
                => result = ValueError("unknown_function", <<identifier>>)
           ELSE identifier \notin DOMAIN _variables
                => result = ValueError("unknown_variable", <<identifier>>)

C9_Witness ==
    /\ pc = "done"
    /\ expression = Join(<<F, LPAREN, X, RPAREN>>)
    /\ result = ValueError("unknown_function", <<F>>)

\* C10: the function table is the same eleven built-ins in every reachable
\* state; clear_variables changes only the variables, which it leaves empty.
C10_FunctionTableFixed ==
    /\ [](/\ _functions = initialize_functions
          /\ Cardinality(DOMAIN _functions) = 11)
    /\ [][last_call' = "clear_variables"
          => /\ _variables' = EmptyDict
             /\ UNCHANGED <<_functions, _tokens, _current_position, result>>]_vars

C10_Witness ==
    /\ last_call = "clear_variables"
    /\ expression = Join(<<LET_KEYWORD, ABS, EQUALS, <<"5">>>>)
    /\ result.kind # "ok"
    /\ _variables = EmptyDict
    /\ ABS \in DOMAIN _functions


\* the call run step by step ends as calculate says it ends: the same
\* outcome, tokens, cursor and variables
StepsAgreeWithCalculate ==
    pc = "done" =>
        LET out == calculate([Self EXCEPT !.variables = EmptyDict,
                                          !.tokens = <<>>,
                                          !.current_position = 0],
                             expression)
        IN  /\ result = out.res
            /\ _tokens = out.self.tokens
            /\ _current_position = out.self.current_position
            /\ _variables = out.self.variables

\* the cursor is an index into the tokens, or just past the last of them
CursorInRange ==
    0 <= _current_position /\ _current_position <= Len(_tokens)

\* a handler that is entered again while it runs (through a sign, '**',
\* 'let', '(' or a function's argument) is entered with the cursor further on
DescentConsumes ==
    \A i, j \in 1..Len(call_stack) :
        (i < j /\ call_stack[i].handler = call_stack[j].handler)
            => call_stack[i].entry < call_stack[j].entry

\* the cursor is past where it was at the latest test of every running loop
LoopConsumes ==
    \A i \in 1..Len(call_stack) : call_stack[i].mark < _current_position

\* a call sets the cursor to 0 before it parses
CursorStartsAtZero ==
    (pc = "ready" /\ pc' = "running") => _current_position' = 0

\* no step of a call moves the cursor back
CursorNeverDecreases ==
    pc = "running" => _current_position' >= _current_position

\* C11: every calculate call terminates, returning or failing; within the
\* call the cursor starts at 0, never decreases and never exceeds the number
\* of tokens, and every turn of a loop and every descent of a handler into
\* itself has consumed at least one token
C11_CalculateTerminates ==
    /\ [](CursorInRange /\ DescentConsumes /\ LoopConsumes)
    /\ [][CursorStartsAtZero /\ CursorNeverDecreases]_vars
    /\ (pc = "running") ~> (pc = "done")

\* a call is in the second turn of a loop, inside a handler that has
\* descended into itself, with tokens consumed and tokens left
C11_Witness ==
    /\ pc = "running"
    /\ \E i \in 1..Len(call_stack) : call_stack[i].mark >= 0
    /\ \E i, j \in 1..Len(call_stack) :
           /\ i < j
           /\ call_stack[i].handler = "handle_unary_expression"
           /\ call_stack[j].handler = "handle_unary_expression"
    /\ 0 < _current_position
    /\ _current_position < Len(_tokens)

====
